---- MODULE Spec2Model ----
(***************************************************************************)
(* Model of the global functions decodeURI and encodeURI of                *)
(* boa/src/builtins/uri/mod.rs.                                            *)
(*                                                                         *)
(* Text is a sequence of Unicode scalar values (Rust str); bytes are       *)
(* naturals below 256.  A call ends in Ok(value) or in a panic (unwrap on  *)
(* None / Err); the code has no path that yields Err.                      *)
(***************************************************************************)
EXTENDS Integers, Sequences, FiniteSets, TLC

VARIABLES pc, args, orig, outcome, cbCalls

vars == <<pc, args, orig, outcome, cbCalls>>

----------------------------------------------------------------------------
(* Bounds and the inputs drawn for the calls *)

\* longest input, counted in pieces (a piece is one character or one %XX)
MaxLen == 3

\* a  1  G  /  %  [  space  U+00E9  U+20AC  U+1F600
Chars == {97, 49, 71, 47, 37, 91, 32, 233, 8364, 128512}

\* %E2 %82 %AC %e2 %ac %C0 %80
Escapes == { <<37, 69, 50>>, <<37, 56, 50>>, <<37, 65, 67>>,
             <<37, 101, 50>>, <<37, 97, 99>>,
             <<37, 67, 48>>, <<37, 56, 48>> }

Pieces == { <<c>> : c \in Chars } \cup Escapes

RECURSIVE TextsOfLen(_)
TextsOfLen(n) ==
    IF n = 0 THEN { <<>> }
    ELSE { t \o p : t \in TextsOfLen(n - 1), p \in Pieces }

Texts == UNION { TextsOfLen(n) : n \in 0..MaxLen }

----------------------------------------------------------------------------
(* Values and call results *)

String(s) == [type |-> "String", str |-> s]

Undefined == [type |-> "Undefined", str |-> <<>>]

Null == [type |-> "Null", str |-> <<>>]

Boolean == [type |-> "Boolean", str |-> <<>>]

Values == { String(s) : s \in Texts } \cup {Undefined, Null, Boolean}

ArgLists == { <<>> } \cup { <<v>> : v \in Values }
              \cup { <<v, w>> : v \in {String(<<>>), String(<<97>>), Undefined},
                                w \in {String(<<37>>), Null} }

Ok(v) == [kind |-> "Ok", value |-> v]

Panic == [kind |-> "Panic", value |-> Undefined]

NoOutcome == [kind |-> "None", value |-> Undefined]

----------------------------------------------------------------------------
(* UTF-8: the byte representation of a Rust str and its validation *)

Utf8Bytes(c) ==
    IF c < 128 THEN <<c>>
    ELSE IF c < 2048 THEN <<192 + (c \div 64), 128 + (c % 64)>>
    ELSE IF c < 65536
         THEN <<224 + (c \div 4096), 128 + ((c \div 64) % 64), 128 + (c % 64)>>
    ELSE <<240 + (c \div 262144), 128 + ((c \div 4096) % 64),
           128 + ((c \div 64) % 64), 128 + (c % 64)>>

RECURSIVE as_bytes(_)
as_bytes(s) ==
    IF s = <<>> THEN <<>> ELSE Utf8Bytes(Head(s)) \o as_bytes(Tail(s))

\* 0 stands for an invalid leading byte
Utf8CharWidth(b) ==
    IF b < 128 THEN 1
    ELSE IF b \in 194..223 THEN 2
    ELSE IF b \in 224..239 THEN 3
    ELSE IF b \in 240..244 THEN 4
    ELSE 0

IsCont(b) == b \in 128..191

SecondOk(first, second) ==
    CASE first = 224 -> second \in 160..191
      [] first = 237 -> second \in 128..159
      [] first = 240 -> second \in 144..191
      [] first = 244 -> second \in 128..143
      [] OTHER -> IsCont(second)

Utf8Err == [ok |-> FALSE, str |-> <<>>]

RECURSIVE from_utf8(_)
from_utf8(bytes) ==
    IF bytes = <<>> THEN [ok |-> TRUE, str |-> <<>>]
    ELSE
      LET first == bytes[1]
          w == Utf8CharWidth(first)
      IN  IF w = 0 \/ Len(bytes) < w THEN Utf8Err
          ELSE IF w >= 2 /\ ~SecondOk(first, bytes[2]) THEN Utf8Err
          ELSE IF w >= 3 /\ ~IsCont(bytes[3]) THEN Utf8Err
          ELSE IF w = 4 /\ ~IsCont(bytes[4]) THEN Utf8Err
          ELSE
            LET c == CASE w = 1 -> first
                       [] w = 2 -> (first - 192) * 64 + (bytes[2] - 128)
                       [] w = 3 -> (first - 224) * 4096 + (bytes[2] - 128) * 64
                                   + (bytes[3] - 128)
                       [] w = 4 -> (first - 240) * 262144
                                   + (bytes[2] - 128) * 4096
                                   + (bytes[3] - 128) * 64 + (bytes[4] - 128)
                rest == from_utf8(SubSeq(bytes, w + 1, Len(bytes)))
            IN  IF rest.ok THEN [ok |-> TRUE, str |-> <<c>> \o rest.str]
                ELSE Utf8Err

----------------------------------------------------------------------------
(* percent_encoding: percent_decode(..).decode_utf8(), as the crate the   *)
(* module imports at line 9 behaves: PercentDecode::next yields the byte  *)
(* of a %XX and yields any other '%' unchanged; decode_utf8 is            *)
(* String::from_utf8 on the collected bytes.                              *)

\* a to_digit that knows the uppercase digits only
to_digit_upper(b) ==
    IF b \in 48..57 THEN b - 48
    ELSE IF b \in 65..70 THEN b - 55
    ELSE -1

\* char::to_digit(16); -1 stands for None
to_digit(b) ==
    IF b \in 48..57 THEN b - 48
    ELSE IF b \in 97..102 THEN b - 87
    ELSE IF b \in 65..70 THEN b - 55
    ELSE -1

\* a '%' that is not followed by two hex digits is yielded as it stands
RECURSIVE percent_decode(_)
percent_decode(bytes) ==
    IF bytes = <<>> THEN <<>>
    ELSE IF /\ bytes[1] = 37
            /\ Len(bytes) >= 3
            /\ to_digit(bytes[2]) >= 0
            /\ to_digit(bytes[3]) >= 0
         THEN <<to_digit(bytes[2]) * 16 + to_digit(bytes[3])>>
              \o percent_decode(SubSeq(bytes, 4, Len(bytes)))
         ELSE <<bytes[1]>> \o percent_decode(Tail(bytes))

decode_utf8(bytes) == from_utf8(bytes)

----------------------------------------------------------------------------
(* percent_encoding: utf8_percent_encode(.., ENCODE_FRAGMENT) *)

CONTROLS == (0..31) \cup {127}

\* the set with the reserved '/' added, as a component encoder has it
ENCODE_FRAGMENT_component == CONTROLS \cup {32, 34, 60, 62, 96, 47}

\* CONTROLS plus space, '"', '<', '>', '`'
ENCODE_FRAGMENT == CONTROLS \cup {32, 34, 60, 62, 96}

should_percent_encode(set, b) == b >= 128 \/ b \in set

\* lowercase hexadecimal digits
HexLower(d) == IF d < 10 THEN 48 + d ELSE 87 + d

HexUpper(d) == IF d < 10 THEN 48 + d ELSE 55 + d

percent_encode_byte(b) == <<37, HexUpper(b \div 16), HexUpper(b % 16)>>

RECURSIVE EncodeBytes(_, _)
EncodeBytes(bytes, set) ==
    IF bytes = <<>> THEN <<>>
    ELSE (IF should_percent_encode(set, bytes[1])
          THEN percent_encode_byte(bytes[1])
          ELSE <<bytes[1]>>) \o EncodeBytes(Tail(bytes), set)

utf8_percent_encode(s, set) == EncodeBytes(as_bytes(s), set)

----------------------------------------------------------------------------
(* Uri *)

\* the closure passed by decode_uri: unwrap panics on invalid UTF-8
decode_cb(s) ==
    LET r == decode_utf8(percent_decode(as_bytes(s)))
    IN  IF r.ok THEN Ok(String(r.str)) ELSE Panic

\* the closure passed by encode_uri
encode_cb(s) == Ok(String(utf8_percent_encode(s, ENCODE_FRAGMENT)))

Callback(cb, s) == IF cb = "decode" THEN decode_cb(s) ELSE encode_cb(s)

\* a dispatcher without the is_empty test
handle_uri_no_empty(a, cb) ==
    IF Len(a) = 0 THEN [outcome |-> Panic, calls |-> 0]
    ELSE IF a[1].type = "String"
         THEN [outcome |-> Callback(cb, a[1].str), calls |-> 1]
         ELSE [outcome |-> Ok(Undefined), calls |-> 0]

\* args.get(0).map(..).unwrap(): unwrap panics when there is no argument
handle_uri(a, cb) ==
    IF Len(a) = 0 THEN [outcome |-> Panic, calls |-> 0]
    ELSE IF a[1].type = "String"
         THEN IF a[1].str = <<>>
              THEN [outcome |-> Ok(String(<<>>)), calls |-> 0]
              ELSE [outcome |-> Callback(cb, a[1].str), calls |-> 1]
         ELSE [outcome |-> Ok(Undefined), calls |-> 0]

decode_uri(a) == handle_uri(a, "decode")

encode_uri(a) == handle_uri(a, "encode")

----------------------------------------------------------------------------
(* The calls a script makes *)

Init ==
    /\ pc = "start"
    /\ args \in ArgLists
    /\ orig = args
    /\ outcome = NoOutcome
    /\ cbCalls = 0

\* encodeURI(args)
CallEncodeURI ==
    /\ pc = "start"
    /\ pc' = "encoded"
    /\ outcome' = encode_uri(args).outcome
    /\ cbCalls' = encode_uri(args).calls
    /\ UNCHANGED <<args, orig>>

\* decodeURI(args)
CallDecodeURI ==
    /\ pc = "start"
    /\ pc' = "decoded"
    /\ outcome' = decode_uri(args).outcome
    /\ cbCalls' = decode_uri(args).calls
    /\ UNCHANGED <<args, orig>>

\* decodeURI(encodeURI(args)): the value encodeURI returned is the argument
CallDecodeOfEncoded ==
    /\ pc = "encoded"
    /\ outcome.kind = "Ok"
    /\ pc' = "roundtrip"
    /\ args' = <<outcome.value>>
    /\ outcome' = decode_uri(<<outcome.value>>).outcome
    /\ cbCalls' = decode_uri(<<outcome.value>>).calls
    /\ UNCHANGED orig

Next == CallEncodeURI \/ CallDecodeURI \/ CallDecodeOfEncoded

Spec == Init /\ [][Next]_vars

TypeOK ==
    /\ pc \in {"start", "encoded", "decoded", "roundtrip"}
    /\ outcome.kind \in {"None", "Ok", "Panic"}
    /\ cbCalls \in 0..1

----------------------------------------------------------------------------
(* Reference notions of the specification, used to state the properties *)

\* A-Z a-z 0-9  - _ . ! ~ * ' ( )  ; , / ? : @ & = + $ #
UnescapedSet ==
    (65..90) \cup (97..122) \cup (48..57)
    \cup {45, 95, 46, 33, 126, 42, 39, 40, 41}
    \cup {59, 44, 47, 63, 58, 64, 38, 61, 43, 36, 35}

UpperHexDigits == <<48, 49, 50, 51, 52, 53, 54, 55, 56, 57,
                    65, 66, 67, 68, 69, 70>>

LowerHexDigits == <<48, 49, 50, 51, 52, 53, 54, 55, 56, 57,
                    97, 98, 99, 100, 101, 102>>

IsHexChar(ch) ==
    \E d \in 1..16 : UpperHexDigits[d] = ch \/ LowerHexDigits[d] = ch

RefHexVal(ch) ==
    CHOOSE d \in 0..15 : UpperHexDigits[d + 1] = ch \/ LowerHexDigits[d + 1] = ch

RefEscape(b) == <<37, UpperHexDigits[(b \div 16) + 1], UpperHexDigits[(b % 16) + 1]>>

RECURSIVE RefEscapes(_)
RefEscapes(bytes) ==
    IF bytes = <<>> THEN <<>>
    ELSE RefEscape(Head(bytes)) \o RefEscapes(Tail(bytes))

\* the encoding the specification describes
RECURSIVE RefEncode(_)
RefEncode(s) ==
    IF s = <<>> THEN <<>>
    ELSE (IF Head(s) \in UnescapedSet THEN <<Head(s)>>
          ELSE RefEscapes(Utf8Bytes(Head(s)))) \o RefEncode(Tail(s))

\* some '%' of s is not followed by two hexadecimal digits
HasMalformedPercent(s) ==
    \E i \in 1..Len(s) :
        /\ s[i] = 37
        /\ ~(i + 2 <= Len(s) /\ IsHexChar(s[i + 1]) /\ IsHexChar(s[i + 2]))

\* the bytes a well-formed escaped text denotes
RECURSIVE RefBytes(_)
RefBytes(s) ==
    IF s = <<>> THEN <<>>
    ELSE IF s[1] = 37
         THEN <<RefHexVal(s[2]) * 16 + RefHexVal(s[3])>>
              \o RefBytes(SubSeq(s, 4, Len(s)))
         ELSE Utf8Bytes(s[1]) \o RefBytes(Tail(s))

\* byte strings that are the UTF-8 form of one of the texts
EncodedTexts == { as_bytes(t) : t \in Texts }

IsUtf8(bytes) == from_utf8(bytes).ok \/ bytes \in EncodedTexts

RefWidth(c) == IF c < 2048 THEN 2 ELSE IF c < 65536 THEN 3 ELSE 4

\* bs is the UTF-8 byte sequence of the non-ASCII code point c
Denotes(bs, c) ==
    /\ Len(bs) = RefWidth(c)
    /\ \A k \in 2..Len(bs) : bs[k] \in 128..191
    /\ CASE Len(bs) = 2 -> /\ bs[1] \in 192..223
                           /\ c = (bs[1] - 192) * 64 + (bs[2] - 128)
         [] Len(bs) = 3 -> /\ bs[1] \in 224..239
                           /\ c = (bs[1] - 224) * 4096 + (bs[2] - 128) * 64
                                  + (bs[3] - 128)
         [] Len(bs) = 4 -> /\ bs[1] \in 240..247
                           /\ c = (bs[1] - 240) * 262144 + (bs[2] - 128) * 4096
                                  + (bs[3] - 128) * 64 + (bs[4] - 128)

IsUpperHexChar(ch) == \E d \in 1..16 : UpperHexDigits[d] = ch

\* out starts with n tokens %XX in uppercase hexadecimal
UpperTokens(out, n) ==
    /\ Len(out) >= 3 * n
    /\ \A k \in 1..n : /\ out[3 * k - 2] = 37
                       /\ IsUpperHexChar(out[3 * k - 1])
                       /\ IsUpperHexChar(out[3 * k])

TokenBytes(out, n) ==
    [k \in 1..n |-> RefHexVal(out[3 * k - 1]) * 16 + RefHexVal(out[3 * k])]

\* out is s with every non-ASCII code point replaced by its tokens; what an
\* ASCII code point becomes is left to the encoder
RECURSIVE MultiByteExpanded(_, _)
MultiByteExpanded(s, out) ==
    IF s = <<>> THEN out = <<>>
    ELSE
      LET c == Head(s)
          n == IF c < 128
               THEN Len(utf8_percent_encode(<<c>>, ENCODE_FRAGMENT))
               ELSE 3 * RefWidth(c)
      IN  /\ Len(out) >= n
          /\ c >= 128 => /\ UpperTokens(out, RefWidth(c))
                         /\ Denotes(TokenBytes(out, RefWidth(c)), c)
          /\ MultiByteExpanded(Tail(s), SubSeq(out, n + 1, Len(out)))

StringArg == Len(args) >= 1 /\ args[1].type = "String"

OkString == outcome.kind = "Ok" /\ outcome.value.type = "String"

----------------------------------------------------------------------------
(* Properties *)

\* C1: decodeURI(encodeURI(s)) returns exactly s for every text s.
RoundTrip ==
    (pc = "roundtrip" /\ Len(orig) >= 1 /\ orig[1].type = "String")
        => outcome = Ok(orig[1])

\* C2: for non-empty s, encodeURI(s) is the reference encoding: code points
\* of the unescaped set copied, every other code point replaced by the %XX
\* escapes of its UTF-8 bytes.
EncodeIsReference ==
    (pc = "encoded" /\ StringArg /\ args[1].str # <<>>)
        => outcome = Ok(String(RefEncode(args[1].str)))

\* C3: every character of encodeURI's output is in the unescaped set or '%'.
OutputAlphabet ==
    (pc = "encoded" /\ OkString)
        => \A i \in 1..Len(outcome.value.str) :
               outcome.value.str[i] \in UnescapedSet \cup {37}

\* C4: decodeURI fails with a decoding error, returning no string, when the
\* input contains a '%' not followed by two hexadecimal digits.
MalformedRejected ==
    (pc = "decoded" /\ StringArg /\ HasMalformedPercent(args[1].str))
        => outcome.kind = "Err"

\* C5: when every '%' is followed by two hex digits but the bytes are not
\* valid UTF-8, decodeURI returns a recoverable error; it neither crashes
\* nor returns a string.
InvalidUtf8IsError ==
    (pc = "decoded" /\ StringArg /\ ~HasMalformedPercent(args[1].str)
       /\ ~IsUtf8(RefBytes(args[1].str)))
        => outcome.kind = "Err"

\* C6: with no first argument or a first argument that is not a string,
\* both functions return undefined without calling the transform, and do
\* not crash.
NonStringIsUndefined ==
    (pc # "start" /\ ~StringArg)
        => (outcome = Ok(Undefined) /\ cbCalls = 0)

\* C7: encodeURI(s) = s for every s made only of unescaped-set characters.
UnescapedUnchanged ==
    (pc = "encoded" /\ StringArg
       /\ \A i \in 1..Len(args[1].str) : args[1].str[i] \in UnescapedSet)
        => outcome = Ok(args[1])

UnescapedUnchangedWitness ==
    /\ pc = "encoded"
    /\ args = <<String(<<97, 47, 49>>)>>
    /\ outcome = Ok(String(<<97, 47, 49>>))

\* C8: for an input whose every '%' is followed by two hex digits (of either
\* case) and whose bytes are valid UTF-8, decodeURI returns the text whose
\* UTF-8 form is the input with each %XX replaced by its byte.
DecodeIsReference ==
    (pc \in {"decoded", "roundtrip"} /\ StringArg
       /\ ~HasMalformedPercent(args[1].str))
        => /\ IsUtf8(RefBytes(args[1].str)) => OkString
           /\ OkString => as_bytes(outcome.value.str) = RefBytes(args[1].str)

DecodeIsReferenceWitness ==
    /\ pc = "decoded"
    /\ args = <<String(<<37, 101, 50, 37, 56, 50, 37, 97, 99>>)>>
    /\ outcome = Ok(String(<<8364>>))

\* C9: for the empty string both functions return the empty string without
\* calling the transform; the transform is called exactly once if and only
\* if the first argument is a non-empty string.
EmptyShortCircuit ==
    pc # "start"
        => /\ cbCalls \in {0, 1}
           /\ cbCalls = 1 <=> (StringArg /\ args[1].str # <<>>)
           /\ (StringArg /\ args[1].str = <<>>) => outcome = Ok(String(<<>>))

EmptyShortCircuitWitness ==
    /\ pc = "decoded"
    /\ args = <<String(<<>>)>>
    /\ outcome = Ok(String(<<>>))
    /\ cbCalls = 0

\* C10: every non-ASCII code point of the input becomes as many consecutive
\* %XX tokens as it has UTF-8 bytes, in byte order, in uppercase hex.
MultiByteExpansion ==
    (pc = "encoded" /\ StringArg /\ args[1].str # <<>>)
        => /\ OkString
           /\ MultiByteExpanded(args[1].str, outcome.value.str)

MultiByteExpansionWitness ==
    /\ pc = "encoded"
    /\ args = <<String(<<8364>>)>>
    /\ outcome = Ok(String(<<37, 69, 50, 37, 56, 50, 37, 65, 67>>))

====
